---- MODULE Spec2Model ----
(***************************************************************************)
(* parallelGBC: the interned term monoid (Term.H), the term orderings      *)
(* (TOrdering.H), the polynomial data model (Polynomial.H) and the F4      *)
(* simplify table (F4Simplify.H).                                          *)
(*                                                                         *)
(* The repository's headers are modelled from their code.  The bodies that *)
(* live in TMonoid.H, Term.C, TOrdering.C, Polynomial.C, CoeffField.H and  *)
(* F4Simplify.C are modelled from the written specification; the           *)
(* definitions concerned say so in their comments.                         *)
(***************************************************************************)
EXTENDS Integers, Sequences, FiniteSets, TLC

(***************************************************************************)
(* Bounds of the model.                                                    *)
(***************************************************************************)
\* Largest exponent a caller passes to createElement(vector).
MaxExp == 1
\* Largest total degree a product or lcm is allowed to reach in a run.
MaxDeg == 1
\* Number of worker threads calling into the monoid.
NumThreads == 2
\* Largest number of TermInstance objects alive at once.
MaxObjects == 3
\* Largest number of monomials pushed to a polynomial.
MaxLen == 2
\* Largest absolute value of a coefficient pushed to a polynomial.
MaxCoeff == 3
MaxTerms == 3
MaxInterned == 8
MaxKeys == 2
MaxSugar == 2

(***************************************************************************)
(* Parameters of the monoid.                                               *)
(***************************************************************************)
\* TMonoid::N, the number of indeterminates (a constructor argument).
N == 3
\* degreeType is an unsigned 16 bit integer: exponents and degrees are
\* computed modulo 2^16.
DegreeMod == 65536

Indets == 1..N
Vectors == [Indets -> 0..MaxExp]
\* The exponent vectors of total degree at most d.
RECURSIVE Total(_, _)
Total(v, k) == IF k = 0 THEN 0 ELSE Total(v, k - 1) + v[k]
VectorsUpTo(d) == {v \in [Indets -> 0..d] : Total(v, N) <= d}
Threads == 1..NumThreads

Min(S) == CHOOSE x \in S : \A y \in S : x <= y
Max(S) == CHOOSE x \in S : \A y \in S : x >= y

(***************************************************************************)
(* size_t arithmetic.  A 64 bit word is four 16 bit limbs, least           *)
(* significant first.                                                      *)
(***************************************************************************)
Limb == 65536

RECURSIVE Xor16(_, _)
Xor16(a, b) ==
    IF a = 0 THEN b
    ELSE IF b = 0 THEN a
    ELSE 2 * Xor16(a \div 2, b \div 2) + ((a + b) % 2)

Word(n) == <<n % Limb, (n \div Limb) % Limb, 0, 0>>

Add64(a, b) ==
    LET s1 == a[1] + b[1]
        s2 == a[2] + b[2] + (s1 \div Limb)
        s3 == a[3] + b[3] + (s2 \div Limb)
        s4 == a[4] + b[4] + (s3 \div Limb)
    IN  <<s1 % Limb, s2 % Limb, s3 % Limb, s4 % Limb>>

Shl6(a) ==
    LET s1 == a[1] * 64
        s2 == a[2] * 64 + (s1 \div Limb)
        s3 == a[3] * 64 + (s2 \div Limb)
        s4 == a[4] * 64 + (s3 \div Limb)
    IN  <<s1 % Limb, s2 % Limb, s3 % Limb, s4 % Limb>>

Shr2(a) ==
    << (a[1] \div 4) + (a[2] % 4) * 16384,
       (a[2] \div 4) + (a[3] % 4) * 16384,
       (a[3] \div 4) + (a[4] % 4) * 16384,
       a[4] \div 4 >>

Xor64(a, b) ==
    <<Xor16(a[1], b[1]), Xor16(a[2], b[2]), Xor16(a[3], b[3]), Xor16(a[4], b[4])>>

\* 0x9e3779b9
GoldenRatio == <<31161, 40503, 0, 0>>

(***************************************************************************)
(* TermInstance                                                            *)
(***************************************************************************)
\* TermInstance::setDegree: degree = indets[0] + ... + indets[N-1], in degreeType.
RECURSIVE SumTo(_, _)
SumTo(indets, k) ==
    IF k = 1 THEN indets[1]
    ELSE (SumTo(indets, k - 1) + indets[k]) % DegreeMod

setDegree(indets) == SumTo(indets, N)

\* TermInstance::setHash: hash ^= indets[i] + 0x9e3779b9 + (hash << 6) + (hash >> 2).
RECURSIVE HashTo(_, _)
HashTo(indets, k) ==
    IF k = 0 THEN Word(0)
    ELSE LET h == HashTo(indets, k - 1)
         IN  Xor64(h, Add64(Add64(Add64(Word(indets[k]), GoldenRatio), Shl6(h)), Shr2(h)))

\* The hashes of the small exponent vectors, computed once.
HashTable == [v \in [Indets -> 0..(2 * MaxExp + 1)] |-> HashTo(v, N)] @@ <<>>

setHash(indets) ==
    IF \A i \in Indets : indets[i] <= 2 * MaxExp + 1
    THEN HashTable[indets]
    ELSE HashTo(indets, N)

\* A TermInstance object: the fields set by a constructor followed by
\* setHash() and setDegree().
Instance(indets) ==
    [indets |-> indets, degree |-> setDegree(indets), hash |-> setHash(indets)]

\* TermInstance(TMonoid*, const std::vector<degreeType>&)
VectorConstructor(v) == Instance([i \in Indets |-> v[i] % DegreeMod])

\* A faulty multiplication constructor: an index slip on the first operand.
MulConstructorSlip(a, b) == Instance([i \in Indets |-> (a[1] + b[i]) % DegreeMod])

\* TermInstance(TMonoid*, const degreeType* a, const degreeType* b):
\* indets[i] = a[i] + b[i].
MulConstructor(a, b) == Instance([i \in Indets |-> (a[i] + b[i]) % DegreeMod])

\* A faulty division: an index slip on the divisor.
DivInstanceSlip(a, b) == Instance([i \in Indets |-> (a[i] - b[1]) % DegreeMod])

\* The object TermInstance::div builds: indets[i] = indets[i] - other->indets[i].
DivInstance(a, b) == Instance([i \in Indets |-> (a[i] - b[i]) % DegreeMod])

\* The object TermInstance::mulX builds: a copy with indets[i] incremented.
MulXInstance(a, i) ==
    Instance([j \in Indets |-> IF j = i THEN (a[j] + 1) % DegreeMod ELSE a[j]])

\* The object TermInstance::divX builds: a copy with indets[i] decremented;
\* there is no check that indets[i] > 0.
DivXInstance(a, i) ==
    Instance([j \in Indets |-> IF j = i THEN (a[j] - 1) % DegreeMod ELSE a[j]])

\* A faulty comparison that stops one coordinate early.
equalShort(x, y) == \A i \in 1..(N - 1) : x.indets[i] = y.indets[i]

\* TermInstance::equal: exponent-wise comparison.
equal(x, y) == \A i \in Indets : x.indets[i] = y.indets[i]

\* TermInstance::isDivisibleBy (body in Term.C): for every i, a[i] >= b[i].
isDivisibleBy(x, y) == \A i \in Indets : x.indets[i] >= y.indets[i]

\* The object TermInstance::lcm builds (body in Term.C): the per-coordinate
\* maximum.
LcmInstance(a, b) ==
    Instance([i \in Indets |-> IF a[i] >= b[i] THEN a[i] ELSE b[i]])

(***************************************************************************)
(* State                                                                   *)
(***************************************************************************)
VARIABLES
    heap,     \* address -> TermInstance object, for every live object
    terms,    \* TMonoid's intern store: the addresses it holds
    pc,       \* per thread: "idle", "allocated" (candidate built), "done"
    call,     \* per thread: the operation in progress and its arguments
    cand,     \* per thread: address of the candidate it built (0: none)
    ret,      \* per thread: the handle its last call returned (0: none)
    test,     \* the handles a sequential caller holds after a run of term operations
    F,        \* F4Simplify::F: polynomial -> (term handle -> polynomial)
    writer,   \* the thread that calls F4Simplify::insert
    reader,   \* the thread that calls F4Simplify::search
    field,    \* CoeffField: the prime modulus
    poly      \* a Polynomial object and the stage of its preparation

vars == <<heap, terms, pc, call, cand, ret, test, F, writer, reader, field, poly>>

monoidVars == <<heap, terms>>
threadVars == <<pc, call, cand, ret>>
simplifyVars == <<F, writer, reader>>
polyVars == <<field, poly>>

NoTest == [kind |-> "none"]
Idle == [pc |-> "idle"]
\* Polynomial(): no monomials, sugar degree zero.
EmptyPoly == [coeffs |-> <<>>, terms |-> <<>>, sugarDegree |-> 0]
NoPoly == [stage |-> "none", p |-> EmptyPoly]

NoCall == [op |-> "none", want |-> <<>>]

\* operator new: some address that holds no live object.
FreshAddr(h) == CHOOSE n \in 1..(Cardinality(DOMAIN h) + 1) : n \notin DOMAIN h

Alloc(h, addr, obj) == [x \in DOMAIN h \cup {addr} |-> IF x = addr THEN obj ELSE h[x]]

Free(h, addr) == [x \in DOMAIN h \ {addr} |-> h[x]]

\* TMonoid::createElement(TermInstance*) (TMonoid.H): insert the candidate
\* into the concurrent set unless an equal element is stored; the result is
\* the stored element.
Stored(h, store, c) == {x \in store : equal(h[x], h[c])}

createElementResult(h, store, c) ==
    IF Stored(h, store, c) = {} THEN c ELSE CHOOSE x \in Stored(h, store, c) : TRUE

createElementStore(h, store, c) ==
    IF Stored(h, store, c) = {} THEN store \cup {c} ELSE store

createElementHeap(h, store, c) ==
    IF Stored(h, store, c) = {} THEN h ELSE Free(h, c)

\* Term::operator==: pointer comparison.
TermEq(x, y) == x = y

\* Term::equal: pointer comparison, then TermInstance::equal.
TermEqual(h, x, y) == IF x = y THEN TRUE ELSE equal(h[x], h[y])

(***************************************************************************)
(* The monoid under concurrent callers                                     *)
(***************************************************************************)
Init ==
    /\ heap = <<>>
    /\ terms = {}
    /\ pc = [t \in Threads |-> "idle"]
    /\ call = [t \in Threads |-> NoCall]
    /\ cand = [t \in Threads |-> 0]
    /\ ret = [t \in Threads |-> 0]
    /\ test = NoTest
    /\ F = <<>>
    /\ writer = Idle
    /\ reader = Idle
    /\ field = 0
    /\ poly = NoPoly

\* A thread builds a candidate object and is about to hand it to createElement.
Build(t, c, obj) ==
    LET addr == FreshAddr(heap)
    IN  /\ Cardinality(DOMAIN heap) < MaxObjects
        /\ heap' = Alloc(heap, addr, obj)
        /\ cand' = [cand EXCEPT ![t] = addr]
        /\ call' = [call EXCEPT ![t] = c]
        /\ pc' = [pc EXCEPT ![t] = "allocated"]
        /\ ret' = [ret EXCEPT ![t] = 0]
        /\ UNCHANGED <<terms, test, simplifyVars, polyVars>>

\* Term(TMonoid*, const std::vector<degreeType>&) up to the construction of
\* the candidate.
CreateCall(t, v) ==
    /\ pc[t] = "idle"
    /\ Build(t, [op |-> "create", want |-> v], VectorConstructor(v))

\* TermInstance::mul up to the construction of the candidate; with
\* other->degree == 0 it returns this at once, and no create call is made.
\* A call records in want the exponent vector it hands to createElement, or
\* that of the handle it returns without one.
MulCall(t, a, b) ==
    /\ pc[t] = "idle"
    /\ a \in terms /\ b \in terms
    /\ heap[a].degree + heap[b].degree <= MaxDeg
    /\ IF heap[b].degree = 0
       THEN /\ ret' = [ret EXCEPT ![t] = a]
            /\ call' = [call EXCEPT ![t] = [op |-> "mul", want |-> heap[a].indets]]
            /\ pc' = [pc EXCEPT ![t] = "done"]
            /\ UNCHANGED <<heap, terms, cand, test, simplifyVars, polyVars>>
       ELSE Build(t, [op |-> "mul",
                      want |-> MulConstructor(heap[a].indets, heap[b].indets).indets],
                  MulConstructor(heap[a].indets, heap[b].indets))

\* TermInstance::div up to the construction of the candidate.  The code makes
\* no test of divisibility: where an exponent of b exceeds that of a the
\* difference wraps in degreeType, and the wrapped candidate goes to
\* createElement like any other.
DivCall(t, a, b) ==
    /\ pc[t] = "idle"
    /\ a \in terms /\ b \in terms
    /\ Build(t, [op |-> "div",
                 want |-> DivInstance(heap[a].indets, heap[b].indets).indets],
             DivInstance(heap[a].indets, heap[b].indets))

\* TermInstance::lcm up to the construction of the candidate.
LcmCall(t, a, b) ==
    /\ pc[t] = "idle"
    /\ a \in terms /\ b \in terms
    /\ LcmInstance(heap[a].indets, heap[b].indets).degree <= MaxDeg
    /\ Build(t, [op |-> "lcm",
                 want |-> LcmInstance(heap[a].indets, heap[b].indets).indets],
             LcmInstance(heap[a].indets, heap[b].indets))

\* owner->createElement(candidate): one atomic insert-or-return on the
\* concurrent set.
CreateElement(t) ==
    /\ pc[t] = "allocated"
    /\ ret' = [ret EXCEPT ![t] = createElementResult(heap, terms, cand[t])]
    /\ terms' = createElementStore(heap, terms, cand[t])
    /\ heap' = createElementHeap(heap, terms, cand[t])
    /\ cand' = [cand EXCEPT ![t] = 0]
    /\ pc' = [pc EXCEPT ![t] = "done"]
    /\ UNCHANGED <<call, test, simplifyVars, polyVars>>

\* TermInstance::mulX up to the construction of the candidate.
MulXCall(t, a, i) ==
    /\ pc[t] = "idle"
    /\ a \in terms
    /\ Build(t, [op |-> "mulX", want |-> MulXInstance(heap[a].indets, i).indets],
             MulXInstance(heap[a].indets, i))

\* TermInstance::divX up to the construction of the candidate.
DivXCall(t, a, i) ==
    /\ pc[t] = "idle"
    /\ a \in terms
    /\ Build(t, [op |-> "divX", want |-> DivXInstance(heap[a].indets, i).indets],
             DivXInstance(heap[a].indets, i))

\* The positions divAllX has yet to visit behind position i: those where the
\* exponent of a is positive.
Pending(a, i) == {j \in Indets : j > i /\ heap[a].indets[j] > 0}

\* Term::divAllX up to the construction of its first candidate: divX(i) for
\* the first i with at(i) > 0.  With no such i the call returns the empty
\* vector and changes nothing.
DivAllXCall(t, a) ==
    /\ pc[t] = "idle"
    /\ a \in terms
    /\ Pending(a, 0) # {}
    /\ Build(t, [op |-> "divAllX", a |-> a, i |-> Min(Pending(a, 0)),
                 want |-> DivXInstance(heap[a].indets, Min(Pending(a, 0))).indets],
             DivXInstance(heap[a].indets, Min(Pending(a, 0))))

\* Term::divAllX, the next turn of its loop: the handle just interned has
\* been pushed to the result, and the candidate for the next position with
\* at(i) > 0 is built.
DivAllXNext(t) ==
    /\ pc[t] = "done"
    /\ call[t].op = "divAllX"
    /\ Pending(call[t].a, call[t].i) # {}
    /\ Build(t, [op |-> "divAllX", a |-> call[t].a,
                 i |-> Min(Pending(call[t].a, call[t].i)),
                 want |-> DivXInstance(heap[call[t].a].indets,
                                       Min(Pending(call[t].a, call[t].i))).indets],
             DivXInstance(heap[call[t].a].indets, Min(Pending(call[t].a, call[t].i))))

\* A term written as a product of factors x[index]^exponent, the form
\* Term(TMonoid*, const std::string&, degreeType min) parses.
Factors == [index : 0..N, exponent : 1..MaxExp]
TermStrings == {<<>>} \cup {<<f>> : f \in Factors} \cup {<<f, g>> : f \in Factors, g \in Factors}

\* Every index of the string is in [min, min + N).
ParseOK(s, min) == \A k \in 1..Len(s) : s[k].index - min + 1 \in Indets

\* The exponent the first k factors of the string give x[i + min - 1].
RECURSIVE ParseExp(_, _, _, _)
ParseExp(s, min, i, k) ==
    IF k = 0 THEN 0
    ELSE ParseExp(s, min, i, k - 1)
         + (IF s[k].index - min + 1 = i THEN s[k].exponent ELSE 0)

\* TMonoid::createElement(const std::string&, degreeType min) (TMonoid.H):
\* the exponent vector position of x[k] is k - min; absent variables have
\* exponent zero.
ParseTerm(s, min) == [i \in Indets |-> ParseExp(s, min, i, Len(s))]

\* Term(TMonoid*, const std::string&, degreeType min) up to the construction
\* of the candidate; a string with an index out of range is an error and
\* builds nothing.
CreateStringCall(t, s, min) ==
    /\ pc[t] = "idle"
    /\ ParseOK(s, min)
    /\ Build(t, [op |-> "parse", want |-> ParseTerm(s, min)],
             VectorConstructor(ParseTerm(s, min)))

\* The call returns to its caller; divAllX returns when its loop has no
\* position left.
Return(t) ==
    /\ pc[t] = "done"
    /\ call[t].op = "divAllX" => Pending(call[t].a, call[t].i) = {}
    /\ pc' = [pc EXCEPT ![t] = "idle"]
    /\ call' = [call EXCEPT ![t] = NoCall]
    /\ ret' = [ret EXCEPT ![t] = 0]
    /\ UNCHANGED <<heap, terms, cand, test, simplifyVars, polyVars>>

Next ==
    \E t \in Threads :
        \/ \E v \in VectorsUpTo(MaxDeg) : CreateCall(t, v)
        \/ \E a \in terms, b \in terms : MulCall(t, a, b)
        \/ \E a \in terms, b \in terms : DivCall(t, a, b)
        \/ \E a \in terms, b \in terms : LcmCall(t, a, b)
        \/ \E a \in terms, i \in Indets : MulXCall(t, a, i)
        \/ \E a \in terms, i \in Indets : DivXCall(t, a, i)
        \/ \E a \in terms : DivAllXCall(t, a)
        \/ DivAllXNext(t)
        \/ \E s \in TermStrings, min \in 0..1 : CreateStringCall(t, s, min)
        \/ CreateElement(t)
        \/ Return(t)

Spec == Init /\ [][Next]_vars

(***************************************************************************)
(* C1: under any interleaving of create calls (those inside mul, div and   *)
(* lcm included) the intern store never holds two handles with the same    *)
(* exponent vector: Term::operator== agrees with Term::equal on all stored *)
(* handles, every finished call returns a stored handle that carries the   *)
(* exponent vector the call was made for, and two finished calls for the   *)
(* same vector returned the same handle.                                   *)
(***************************************************************************)
InternUnique ==
    /\ \A x \in terms, y \in terms : TermEq(x, y) <=> TermEqual(heap, x, y)
    /\ \A t \in Threads :
          pc[t] = "done" =>
              /\ ret[t] \in terms
              /\ heap[ret[t]].indets = call[t].want
    /\ \A t \in Threads, u \in Threads :
          (pc[t] = "done" /\ pc[u] = "done" /\ call[t].want = call[u].want)
              => TermEq(ret[t], ret[u])

\* One thread's call has returned the stored handle while another thread
\* holds a second object with the same exponent vector, not yet interned.
InternRace ==
    \E t \in Threads, u \in Threads :
        /\ pc[t] = "done" /\ pc[u] = "allocated"
        /\ cand[u] # ret[t]
        /\ equal(heap[cand[u]], heap[ret[t]])



(***************************************************************************)
(* The monoid under one sequential caller                                  *)
(***************************************************************************)
\* A call of createElement(new TermInstance(...)) run to completion: the
\* monoid's state after it and the handle it returned.
Interned(st, obj) ==
    LET addr == FreshAddr(st.heap)
        h1 == Alloc(st.heap, addr, obj)
    IN  [heap |-> createElementHeap(h1, st.terms, addr),
         terms |-> createElementStore(h1, st.terms, addr),
         ret |-> createElementResult(h1, st.terms, addr)]

\* TermInstance::mul
mul(st, a, b) ==
    IF st.heap[b].degree = 0
    THEN [st EXCEPT !.ret = a]
    ELSE Interned(st, MulConstructor(st.heap[a].indets, st.heap[b].indets))

\* TermInstance::div
div(st, a, b) == Interned(st, DivInstance(st.heap[a].indets, st.heap[b].indets))

\* TermInstance::lcm
lcm(st, a, b) == Interned(st, LcmInstance(st.heap[a].indets, st.heap[b].indets))

\* TMonoid::createElement(const std::vector<degreeType>&)
create(st, v) == Interned(st, VectorConstructor(v))

\* TMonoid::getOne (TMonoid.H): the term with all exponents zero.
getOne(st) == create(st, [i \in Indets |-> 0])

Sign(x) == IF x > 0 THEN 1 ELSE IF x < 0 THEN -1 ELSE 0

\* The coordinates at which two terms differ.
Differ(x, y) == {i \in Indets : x.indets[i] # y.indets[i]}


\* LexOrdering::cmp (TOrdering.C): the first coordinate where the exponents
\* differ decides; the larger exponent wins.
LexCmp(x, y) ==
    IF Differ(x, y) = {} THEN 0
    ELSE x.indets[Min(Differ(x, y))] - y.indets[Min(Differ(x, y))]

\* DegLexOrdering::cmp (TOrdering.C): total degrees first, ties by Lex.
DegLexCmp(x, y) ==
    IF x.degree # y.degree THEN x.degree - y.degree ELSE LexCmp(x, y)

\* DegRevLexOrdering::cmp (TOrdering.C): total degrees first; on a tie the
\* last coordinate where the exponents differ decides, and the term with the
\* smaller exponent there is the larger term.
DegRevLexCmp(x, y) ==
    IF x.degree # y.degree THEN x.degree - y.degree
    ELSE IF Differ(x, y) = {} THEN 0
    ELSE y.indets[Max(Differ(x, y))] - x.indets[Max(Differ(x, y))]

Orderings == {"Lex", "DegLex", "DegRevLex"}

\* TOrdering::cmp(const Term&, const Term&), dispatched on the ordering.
cmp(O, h, a, b) ==
    IF O = "Lex" THEN LexCmp(h[a], h[b])
    ELSE IF O = "DegLex" THEN DegLexCmp(h[a], h[b])
    ELSE DegRevLexCmp(h[a], h[b])

\* The terms of the written specification's third scenario, x[1]^3*x[2] and
\* x[1]*x[2]^2.
ScenarioVectors == {<<3, 1, 0>>, <<1, 2, 0>>}

\* A sequential caller creates three terms in a new monoid and runs the
\* term operations on them, one call after the other, keeping every handle
\* it got back.
ARun(va, vb, vc) ==
    /\ test = NoTest
    /\ \E i1 \in {create([heap |-> heap, terms |-> terms, ret |-> 0], va)} :
       \E i2 \in {create(i1, vb)} :
       \E i3 \in {create(i2, vc)} :
       \E s1 \in {getOne(i3)} :
       \E s2 \in {mul(s1, i1.ret, s1.ret)} :
       \E s3 \in {mul(s2, i1.ret, i2.ret)} :
       \E s4 \in {mul(s3, i2.ret, i1.ret)} :
       \E s5 \in {div(s4, s3.ret, i2.ret)} :
       \E s6 \in {lcm(s5, i1.ret, i2.ret)} :
       \E s7 \in {mul(s6, i1.ret, i3.ret)} :
       \E s8 \in {mul(s7, i2.ret, i3.ret)} :
           /\ heap' = s8.heap
           /\ terms' = s8.terms
           /\ test' = [kind |-> "laws", a |-> i1.ret, b |-> i2.ret, c |-> i3.ret,
                       preA |-> i3.heap[i1.ret], preB |-> i3.heap[i2.ret],
                       preC |-> i3.heap[i3.ret],
                       one |-> s1.ret, aOne |-> s2.ret, ab |-> s3.ret,
                       ba |-> s4.ret, abDivB |-> s5.ret, lcmAB |-> s6.ret,
                       ac |-> s7.ret, bc |-> s8.ret]
    /\ UNCHANGED <<threadVars, simplifyVars, polyVars>>

\* A sequential caller creates two terms in a new monoid, takes their
\* product and their lcm, divides the lcm by each of them and the product by
\* the lcm, and multiplies every quotient back.
DRun(va, vb) ==
    /\ test = NoTest
    /\ \E i1 \in {create([heap |-> heap, terms |-> terms, ret |-> 0], va)} :
       \E i2 \in {create(i1, vb)} :
       \E s1 \in {mul(i2, i1.ret, i2.ret)} :
       \E s2 \in {lcm(s1, i1.ret, i2.ret)} :
       \E s3 \in {lcm(s2, i2.ret, i1.ret)} :
       \E s4 \in {div(s3, s2.ret, i1.ret)} :
       \E s5 \in {div(s4, s2.ret, i2.ret)} :
       \E s6 \in {mul(s5, i1.ret, s4.ret)} :
       \E s7 \in {mul(s6, i2.ret, s5.ret)} :
       \E s8 \in {div(s7, s1.ret, s2.ret)} :
       \E s9 \in {mul(s8, s2.ret, s8.ret)} :
           /\ heap' = s9.heap
           /\ terms' = s9.terms
           /\ test' = [kind |-> "div", a |-> i1.ret, b |-> i2.ret, ab |-> s1.ret,
                       lcmAB |-> s2.ret, lcmBA |-> s3.ret,
                       lcmDivA |-> s4.ret, lcmDivB |-> s5.ret,
                       aLcmDivA |-> s6.ret, bLcmDivB |-> s7.ret,
                       abDivLcm |-> s8.ret, lcmAbDivLcm |-> s9.ret]
    /\ UNCHANGED <<threadVars, simplifyVars, polyVars>>

\* The run ends: the monoid is destroyed and a new one constructed.
AReset ==
    /\ test # NoTest
    /\ heap' = <<>>
    /\ terms' = {}
    /\ test' = NoTest
    /\ UNCHANGED <<threadVars, simplifyVars, polyVars>>

NextAlgebra ==
    \/ \E va \in Vectors, vb \in Vectors, vc \in Vectors : ARun(va, vb, vc)
    \/ \E va \in Vectors \cup ScenarioVectors, vb \in Vectors \cup ScenarioVectors :
          DRun(va, vb)
    \/ AReset

SpecAlgebra == Init /\ [][NextAlgebra]_vars

(***************************************************************************)
(* C7: mul(a, one) is the handle a; mul(a, b) and mul(b, a) are the same   *)
(* handle; div(mul(a, b), b) is the handle a; deg(mul(a, b)) is            *)
(* deg(a) + deg(b); and the operations leave the exponent vector, degree   *)
(* and hash of their input handles as they were.                           *)
(***************************************************************************)
TermAlgebra ==
    test.kind = "laws" =>
        /\ TermEq(test.aOne, test.a)
        /\ TermEq(test.ab, test.ba)
        /\ TermEq(test.abDivB, test.a)
        /\ heap[test.ab].degree = heap[test.a].degree + heap[test.b].degree
        /\ heap[test.a] = test.preA
        /\ heap[test.b] = test.preB
        /\ heap[test.c] = test.preC

\* A run on two different terms, neither of them the one.
TermAlgebraRun ==
    /\ test.kind = "laws"
    /\ test.a # test.b
    /\ heap[test.a].degree > 0 /\ heap[test.b].degree > 0
    /\ test.ab \notin {test.a, test.b}
    /\ TermEq(test.abDivB, test.a)

(***************************************************************************)
(* C8: isDivisibleBy(a, b) is true exactly when a[i] >= b[i] for every i,  *)
(* which is exactly when the quotient div computes has no exponent above   *)
(* that of a; lcm(a, b) is the per-coordinate maximum, the same handle as  *)
(* lcm(b, a), divisible by a and by b with quotients that mul takes back   *)
(* to it, it divides every stored common multiple, mul(a, b) among them,   *)
(* and no term of smaller degree is divisible by both; mul(a, b) is        *)
(* divisible by a.                                                         *)
(***************************************************************************)
Box == [Indets -> 0..(2 * MaxExp)]

\* The quotient TermInstance::div computes for x / y has no exponent above
\* that of x: the subtraction has not wrapped.
ExactDiv(x, y) ==
    \A i \in Indets : DivInstance(x.indets, y.indets).indets[i] <= x.indets[i]

OrderingLaws ==
    \A O \in Orderings :
        /\ \A x \in terms, y \in terms :
              /\ (cmp(O, heap, x, y) = 0) <=> TermEq(x, y)
              /\ Sign(cmp(O, heap, x, y)) = -Sign(cmp(O, heap, y, x))
        /\ \A x \in terms, y \in terms, z \in terms :
              (cmp(O, heap, x, y) > 0 /\ cmp(O, heap, y, z) > 0)
                  => cmp(O, heap, x, z) > 0
        /\ test.kind = "laws" =>
              Sign(cmp(O, heap, test.a, test.b))
                  = Sign(cmp(O, heap, test.ac, test.bc))

\* A run on two different terms, multiplied by a term that is not the one,
\* after which the monoid holds two terms that DegLex and DegRevLex order
\* differently.
OrderingRun ==
    /\ test.kind = "laws"
    /\ heap[test.c].degree > 0
    /\ test.a # test.b
    /\ test.ac # test.a /\ test.bc # test.b
    /\ \E x \in terms, y \in terms :
          /\ cmp("DegLex", heap, x, y) > 0
          /\ cmp("DegRevLex", heap, x, y) < 0


(***************************************************************************)
(* CoeffField (CoeffField.H): the integers modulo a prime p.               *)
(***************************************************************************)
Primes == {2, 3, 5}

\* The canonical representative of an integer, in [0, p).
FieldBringIn(c, p) == c % p

FieldMul(a, b, p) == (a * b) % p

\* The inverse of a; inv(0) fails with DivisionByZero, written 0 here.
FieldInv(a, p) ==
    IF a % p = 0 THEN 0
    ELSE CHOOSE b \in 1..(p - 1) : (a * b) % p = 1

(***************************************************************************)
(* Polynomial                                                              *)
(***************************************************************************)
\* Polynomial::size
size(P) == Len(P.coeffs)

\* Polynomial::push_back(coeffType, const Term&)
push_back(P, c, t) ==
    [P EXCEPT !.coeffs = Append(P.coeffs, c), !.terms = Append(P.terms, t)]

\* Polynomial::isZero
isZero(P) == Len(P.coeffs) < 1 \/ P.coeffs[1] = 0

\* A faulty leading term: the last term of the support.
LTLast(P) == P.terms[Len(P.terms)]

\* Polynomial::LT
LT(P) == P.terms[1]

\* Polynomial::LC
LC(P) == P.coeffs[1]

\* Polynomial::operator==: same size, same term handle and same coefficient
\* at every position; the sugar degree is not compared.
PolyEq(P, Q) ==
    /\ size(P) = size(Q)
    /\ \A i \in 1..Len(P.terms) :
          ~(P.terms[i] # Q.terms[i] \/ P.coeffs[i] # Q.coeffs[i])

\* A coefficient converted to size_t: the value modulo 2^64, a negative one
\* in two's complement.
ToSizeT(c) ==
    IF c >= 0 THEN Word(c)
    ELSE <<(Limb - 1) - ((-c - 1) % Limb), (Limb - 1) - (((-c - 1) \div Limb) % Limb),
           Limb - 1, Limb - 1>>

\* The loop of Polynomial::hash over the first k positions:
\* hash ^= coeffs[i] + hasher(terms[i]), with std::hash<Term> the hash the
\* term instance caches.
RECURSIVE HashUpTo(_, _, _)
HashUpTo(h, P, k) ==
    IF k = 0 THEN Word(0)
    ELSE Xor64(HashUpTo(h, P, k - 1), Add64(ToSizeT(P.coeffs[k]), h[P.terms[k]].hash))

\* Polynomial::mul(const Term&) (Polynomial.C): every term of the support
\* is multiplied by t.  The result is the monoid's state and the products
\* of the first k terms.
RECURSIVE MulTerms(_, _, _, _)
MulTerms(st, ts, t, k) ==
    IF k = 0 THEN [st |-> st, out |-> <<>>]
    ELSE LET r == MulTerms(st, ts, t, k - 1)
             m == mul(r.st, ts[k], t)
         IN  [st |-> m, out |-> Append(r.out, m.ret)]

PolyMul(st, P, t) ==
    LET r == MulTerms(st, P.terms, t, Len(P.terms))
    IN  [st |-> r.st, p |-> [P EXCEPT !.terms = r.out]]

\* The (coefficient, term) pairs of P, position by position.
Monomials(P) == [i \in 1..size(P) |-> <<P.coeffs[i], P.terms[i]>>]

\* MonomialComparator::operator(): the term of lhs is less than the term of
\* rhs under O.
MonomialLess(O, h, lhs, rhs) == cmp(O, h, lhs[2], rhs[2]) < 0

\* The decreasing sequence s with the monomial m put behind every monomial
\* that is not less than it.
RECURSIVE InsertDecreasing(_, _, _, _)
InsertDecreasing(O, h, s, m) ==
    IF s = <<>> THEN <<m>>
    ELSE IF MonomialLess(O, h, Head(s), m) THEN <<m>> \o s
    ELSE <<Head(s)>> \o InsertDecreasing(O, h, Tail(s), m)

\* The first k monomials of ms in decreasing order.
RECURSIVE SortDecreasing(_, _, _, _)
SortDecreasing(O, h, ms, k) ==
    IF k = 0 THEN <<>>
    ELSE InsertDecreasing(O, h, SortDecreasing(O, h, ms, k - 1), ms[k])

\* The monomials ms written back to coeffs and terms; the sugar degree of P
\* is not touched.
WriteBack(P, ms) ==
    [coeffs |-> [i \in 1..Len(ms) |-> ms[i][1]],
     terms |-> [i \in 1..Len(ms) |-> ms[i][2]],
     sugarDegree |-> P.sugarDegree]

\* Polynomial::order (Polynomial.C): the monomials are sorted, a stable
\* permutation into decreasing order under O, and written back to coeffs and
\* terms.
order(P, O, h) == WriteBack(P, SortDecreasing(O, h, Monomials(P), size(P)))

\* Polynomial::mulBy(coeffType, const CoeffField*) (Polynomial.C): every
\* coefficient is multiplied by l in the field.
mulByScalar(P, l, p) ==
    [P EXCEPT !.coeffs = [i \in 1..Len(P.coeffs) |-> FieldMul(P.coeffs[i], l, p)]]

\* Polynomial::normalize (Polynomial.C): a non-zero polynomial is multiplied
\* by the inverse of its leading coefficient.
normalize(P, p) ==
    IF isZero(P) THEN P
    ELSE IF FieldInv(LC(P), p) = 0 THEN P
    ELSE mulByScalar(P, FieldInv(LC(P), p), p)

\* Polynomial::bringIn (Polynomial.C): every coefficient is reduced to the
\* field's canonical range; then, if asked, the polynomial is normalized.
bringIn(P, p, norm) ==
    LET Q == [P EXCEPT !.coeffs = [i \in 1..Len(P.coeffs) |-> FieldBringIn(P.coeffs[i], p)]]
    IN  IF norm THEN normalize(Q, p) ELSE Q

\* The monoid after createElement has been called for every vector of S.
RECURSIVE Load(_, _)
Load(st, S) ==
    IF S = {} THEN st
    ELSE LET v == CHOOSE w \in S : \A u \in S : Total(w, N) <= Total(u, N)
         IN  Load(create(st, v), S \ {v})

Loaded(d) == Load([heap |-> <<>>, terms |-> {}, ret |-> 0], VectorsUpTo(d))

(***************************************************************************)
(* A polynomial is built, brought into a field and normalized              *)
(***************************************************************************)
InitPoly ==
    /\ heap = Loaded(1).heap
    /\ terms = Loaded(1).terms
    /\ pc = [t \in Threads |-> "idle"]
    /\ call = [t \in Threads |-> NoCall]
    /\ cand = [t \in Threads |-> 0]
    /\ ret = [t \in Threads |-> 0]
    /\ test = NoTest
    /\ F = <<>>
    /\ writer = Idle
    /\ reader = Idle
    /\ field \in Primes
    /\ poly = [stage |-> "build", p |-> EmptyPoly]

\* Every coefficient of P is in the field's canonical range [0, p).
InField(P, p) == \A i \in 1..size(P) : P.coeffs[i] \in 0..(p - 1)

\* push_back(c, t).  poly.stage records what the last calls established:
\* "in" after bringIn, "normalized" after bringIn and normalize, "ordered"
\* after order, "build" otherwise.
PushBack(c, t) ==
    /\ poly.stage # "none"
    /\ size(poly.p) < MaxLen
    /\ poly' = [stage |-> "build", p |-> push_back(poly.p, c, t)]
    /\ UNCHANGED <<monoidVars, threadVars, test, simplifyVars, field>>

\* bringIn(field, norm)
BringIn(norm) ==
    /\ poly.stage # "none"
    /\ poly' = [stage |-> "in", p |-> bringIn(poly.p, field, norm)]
    /\ UNCHANGED <<monoidVars, threadVars, test, simplifyVars, field>>

\* normalize(field), called on coefficients that bringIn has reduced.
Normalize ==
    /\ poly.stage = "in"
    /\ poly' = [stage |-> "normalized", p |-> normalize(poly.p, field)]
    /\ UNCHANGED <<monoidVars, threadVars, test, simplifyVars, field>>

\* setSugar(s)
SetSugar(s) ==
    /\ poly.stage # "none"
    /\ poly' = [stage |-> IF poly.stage = "ordered" THEN "build" ELSE poly.stage,
                p |-> [poly.p EXCEPT !.sugarDegree = s]]
    /\ UNCHANGED <<monoidVars, threadVars, test, simplifyVars, field>>

\* mulBy(const Term&) (Polynomial.C): the polynomial is changed to p*t, every
\* term of the support multiplied by t.
MulBy(t) ==
    /\ poly.stage # "none"
    /\ \A i \in 1..size(poly.p) : heap[poly.p.terms[i]].degree + heap[t].degree <= MaxDeg
    /\ \E m \in {PolyMul([heap |-> heap, terms |-> terms, ret |-> 0], poly.p, t)} :
          /\ heap' = m.st.heap
          /\ terms' = m.st.terms
          /\ poly' = [stage |-> IF poly.stage = "ordered" THEN "build" ELSE poly.stage,
                      p |-> m.p]
    /\ UNCHANGED <<threadVars, test, simplifyVars, field>>

\* mulBy(l, field): every coefficient is multiplied by l in the field.  The
\* call requires the coefficients, and l, to be values of the field.
MulByScalar(l) ==
    /\ poly.stage # "none"
    /\ InField(poly.p, field)
    /\ poly' = [stage |-> IF poly.stage \in {"in", "normalized"} THEN "in" ELSE "build",
                p |-> mulByScalar(poly.p, l, field)]
    /\ UNCHANGED <<monoidVars, threadVars, test, simplifyVars, field>>

\* order(O); the polynomial as it was is kept for comparison.
Order(O) ==
    /\ poly.stage # "none"
    /\ poly' = [stage |-> "ordered", p |-> order(poly.p, O, heap),
                pre |-> poly.p, O |-> O]
    /\ UNCHANGED <<monoidVars, threadVars, test, simplifyVars, field>>

NextPoly ==
    \/ \E c \in (-MaxCoeff)..MaxCoeff, t \in terms : PushBack(c, t)
    \/ \E norm \in BOOLEAN : BringIn(norm)
    \/ Normalize
    \/ \E s \in 0..MaxSugar : SetSugar(s)
    \/ \E t \in terms : MulBy(t)
    \/ \E l \in 0..(field - 1) : MulByScalar(l)
    \/ \E O \in Orderings : Order(O)

SpecPoly == InitPoly /\ [][NextPoly]_vars

\* Every coefficient of P is 0 in the field: P is the zero polynomial.
Vanishes(P) == \A i \in 1..size(P) : P.coeffs[i] = 0

\* C10: after bringIn(F) followed by normalize(F) every coefficient is in
\* [0, p) and the polynomial is zero or its leading coefficient is 1.
NormalizedOrZero ==
    poly.stage = "normalized" =>
        /\ \A i \in 1..size(poly.p) : poly.p.coeffs[i] \in 0..(field - 1)
        /\ Vanishes(poly.p) \/ LC(poly.p) = 1

\* 3*x + 2 over Z/3Z after bringIn and normalize: the leading coefficient is
\* 0, isZero answers true, and the polynomial is the constant 2.
LeadingZeroRun ==
    /\ poly.stage = "normalized"
    /\ field = 3
    /\ poly.p.coeffs = <<0, 2>>
    /\ isZero(poly.p)
    /\ heap[poly.p.terms[1]].degree = 1
    /\ heap[poly.p.terms[2]].degree = 0

\* What does hold after bringIn(F) and normalize(F): the coefficients are in
\* [0, p), and isZero answers true or the leading coefficient is 1.
Normalized ==
    poly.stage = "normalized" =>
        /\ \A i \in 1..size(poly.p) : poly.p.coeffs[i] \in 0..(field - 1)
        /\ isZero(poly.p) \/ LC(poly.p) = 1

(***************************************************************************)
(* F4Simplify: the two-level table polynomial -> term -> polynomial        *)
(***************************************************************************)
\* The handle of the interned term with exponent vector v.
Handle(h, store, v) == CHOOSE x \in store : h[x].indets = v

\* The exponent vectors keys are inserted under, and those searched for.
KeyVectors == {<<1, 0, 0>>, <<2, 0, 0>>}
SearchVectors == {<<1, 0, 0>>, <<2, 0, 0>>, <<1, 1, 0>>}

\* The polynomials of the basis: x[1] + 1 and x[2] + 1.
BasisPoly(h, store, v) ==
    [coeffs |-> <<1, 1>>,
     terms |-> <<Handle(h, store, v), Handle(h, store, <<0, 0, 0>>)>>,
     sugarDegree |-> 1]
Basis(h, store) == {BasisPoly(h, store, <<1, 0, 0>>), BasisPoly(h, store, <<0, 1, 0>>)}

\* The non-zero elements of the field.
Scalars(p) == 1..(p - 1)

\* The stored outer keys that compare equal to f (std::hash<Polynomial> and
\* Polynomial::operator==).
FindOuter(Fm, f) == {k \in DOMAIN Fm : PolyEq(k, f)}

OuterKey(Fm, f) == CHOOSE k \in FindOuter(Fm, f) : TRUE

Extend(fn, k, v) == [x \in DOMAIN fn \cup {k} |-> IF x = k THEN v ELSE fn[x]]

\* F4Simplify::search (F4Simplify.C), the lookup of the inner table of f.
\* The body is not at hand and the written specification does not say how
\* the lookup is made: through find the table is only read, through
\* operator[] (index) an empty inner table is created for an f that has none.
searchOuter(Fm, f, index) ==
    IF index /\ FindOuter(Fm, f) = {} THEN Extend(Fm, f, <<>>) ELSE Fm

\* F4Simplify::insert (F4Simplify.C), first step: if no entry exists for f
\* yet, one is created.
insertOuter(Fm, f) == IF FindOuter(Fm, f) = {} THEN Extend(Fm, f, <<>>) ELSE Fm

\* F4Simplify::insert (F4Simplify.C), second step: (t, p) is recorded in the
\* inner table of f; a second insert for the same (f, t) either overwrites
\* the entry or is ignored.  The written specification requires of the
\* implementation that no search reads an inner polynomial in part and that
\* a published polynomial is immutable; the model takes both as given: an
\* entry appears, or gives way to its successor, as a whole.
insertInner(Fm, f, t, p, overwrite) ==
    LET k == OuterKey(Fm, f)
    IN  IF t \in DOMAIN Fm[k] /\ ~overwrite THEN Fm
        ELSE [Fm EXCEPT ![k] = Extend(Fm[k], t, p)]

\* The keys of an inner table that divide t (Term::isDivisibleBy).
Dividing(h, inner, t) == {k \in DOMAIN inner : isDivisibleBy(h[t], h[k])}

\* The terms the basis, the keys, the searched terms and their products and
\* quotients are made of; the reducer has created them all.
SimplifyVectors ==
    {<<0, 0, 0>>, <<1, 0, 0>>, <<0, 1, 0>>, <<2, 0, 0>>, <<1, 1, 0>>,
     <<3, 0, 0>>, <<2, 1, 0>>}

\* No insert has been made: writer.log holds (t, f, p) for every insert that
\* has completed.
NoInsert == [pc |-> "idle", log |-> {}]

InitSimplify ==
    /\ heap = Load([heap |-> <<>>, terms |-> {}, ret |-> 0], SimplifyVectors).heap
    /\ terms = Load([heap |-> <<>>, terms |-> {}, ret |-> 0], SimplifyVectors).terms
    /\ pc = [t \in Threads |-> "idle"]
    /\ call = [t \in Threads |-> NoCall]
    /\ cand = [t \in Threads |-> 0]
    /\ ret = [t \in Threads |-> 0]
    /\ test = NoTest
    /\ F = <<>>
    /\ writer = NoInsert
    /\ reader = Idle
    /\ field = 3
    /\ poly = NoPoly

\* A step of an insert that changes the inner table of the polynomial a
\* search has looked up and not scanned yet: that search is no longer quiet.
Aged(Fnew) ==
    IF reader.pc = "scan" /\ Fnew[OuterKey(Fnew, reader.f)] # F[OuterKey(F, reader.f)]
    THEN [reader EXCEPT !.quiet = FALSE]
    ELSE reader

\* The reducer has p = c * t * f and calls insert(t, f, p): the entry for f
\* is found or created.
InsertBegin(v, f, c) ==
    /\ writer.pc = "idle"
    /\ \E m \in {PolyMul([heap |-> heap, terms |-> terms, ret |-> 0], f,
                         Handle(heap, terms, v))} :
          /\ heap' = m.st.heap
          /\ terms' = m.st.terms
          /\ writer' = [pc |-> "inner", t |-> Handle(heap, terms, v), f |-> f,
                        p |-> mulByScalar(m.p, c, field), log |-> writer.log]
    /\ F' = insertOuter(F, f)
    /\ UNCHANGED <<threadVars, test, reader, polyVars>>

\* insert(t, f, p) records (t, p) in the inner table and returns.
InsertInner(overwrite) ==
    /\ writer.pc = "inner"
    /\ F' = insertInner(F, writer.f, writer.t, writer.p, overwrite)
    /\ reader' = Aged(insertInner(F, writer.f, writer.t, writer.p, overwrite))
    /\ writer' = [pc |-> "idle",
                  log |-> writer.log \cup {[t |-> writer.t, f |-> writer.f, p |-> writer.p]}]
    /\ UNCHANGED <<monoidVars, threadVars, test, polyVars>>

\* The polynomials of the inserts for (t, f) that have completed.
Completed(t, f) == {e.p : e \in {x \in writer.log : x.t = t /\ PolyEq(x.f, f)}}

\* search(t, f) looks up the inner table of f; without one it returns with
\* t and f as they are.
SearchBegin(v, f, index) ==
    /\ reader.pc = "idle"
    /\ F' = searchOuter(F, f, index)
    /\ \E t \in {Handle(heap, terms, v)} :
          reader' =
             IF FindOuter(F', f) = {}
             THEN [pc |-> "done", t |-> t, f |-> f, ins |-> Completed(t, f),
                   quiet |-> TRUE, sole |-> FALSE, found |-> FALSE, key |-> 0,
                   newT |-> t, newF |-> f]
             ELSE [pc |-> "scan", t |-> t, f |-> f, ins |-> Completed(t, f),
                   quiet |-> TRUE]
    /\ UNCHANGED <<monoidVars, threadVars, test, writer, polyVars>>

\* search(t, f) scans the inner table for a key t' that divides t and
\* rewrites t to t/t' and f to the polynomial stored under t'.  Which of
\* several dividing keys is taken cannot be read from the header, and the
\* written specification names the extremum in two ways: any of them may be
\* the one.  reader.sole: t itself was the only key that divided t.
SearchScan ==
    /\ reader.pc = "scan"
    /\ LET inner == F[OuterKey(F, reader.f)]
           base == [pc |-> "done", t |-> reader.t, f |-> reader.f, ins |-> reader.ins,
                    quiet |-> reader.quiet,
                    sole |-> Dividing(heap, inner, reader.t) = {reader.t}]
       IN  IF Dividing(heap, inner, reader.t) = {}
           THEN /\ reader' = base @@ [found |-> FALSE, key |-> 0,
                                      newT |-> reader.t, newF |-> reader.f]
                /\ UNCHANGED monoidVars
           ELSE \E k \in Dividing(heap, inner, reader.t) :
                \E d \in {div([heap |-> heap, terms |-> terms, ret |-> 0], reader.t, k)} :
                    /\ heap' = d.heap
                    /\ terms' = d.terms
                    /\ reader' = base @@ [found |-> TRUE, key |-> k,
                                          newT |-> d.ret, newF |-> inner[k]]
    /\ UNCHANGED <<threadVars, test, F, writer, polyVars>>

\* search returns to its caller, which has the rewritten t and f.
SearchReturn ==
    /\ reader.pc = "done"
    /\ reader' = Idle
    /\ UNCHANGED <<monoidVars, threadVars, test, F, writer, polyVars>>

NextSimplify ==
    \/ \E v \in KeyVectors, f \in Basis(heap, terms), c \in Scalars(field) :
          InsertBegin(v, f, c)
    \/ \E overwrite \in BOOLEAN : InsertInner(overwrite)
    \/ \E v \in SearchVectors, f \in Basis(heap, terms), index \in BOOLEAN :
          SearchBegin(v, f, index)
    \/ SearchScan
    \/ SearchReturn

SpecSimplify == InitSimplify /\ [][NextSimplify]_vars

\* The exponent vectors of the support of P, each raised by that of t.
Raised(P, t) ==
    [i \in 1..size(P) |-> [j \in Indets |-> heap[P.terms[i]].indets[j] + heap[t].indets[j]]]

\* t1 * P1 equals t2 * P2 up to a non-zero scalar of the field.
SameProduct(t1, P1, t2, P2) ==
    /\ size(P1) = size(P2)
    /\ Raised(P1, t1) = Raised(P2, t2)
    /\ \E c \in Scalars(field) :
          \A i \in 1..size(P1) : P1.coeffs[i] = FieldMul(c, P2.coeffs[i], field)

ProductPreserved ==
    (reader.pc = "done" /\ reader.found) =>
        /\ SameProduct(reader.newT, reader.newF, reader.t, reader.f)
        /\ Raised(reader.newF, reader.newT)[1] = Raised(reader.f, reader.t)[1]

\* A search for x[1]*x[2] that found the key x[1] and returned x[2] with a
\* polynomial scaled by 2.
ProductPreservedRun ==
    /\ reader.pc = "done"
    /\ reader.found
    /\ heap[reader.t].indets = <<1, 1, 0>>
    /\ heap[reader.newT].indets = <<0, 1, 0>>
    /\ reader.newF.coeffs = <<2, 2>>


(***************************************************************************)
(* Polynomial::order                                                       *)
(***************************************************************************)
\* The terms the polynomials to be ordered are made of: on x[1]*x[3] and
\* x[2]^2 DegLex and DegRevLex disagree.
OrderVectors ==
    {<<0, 0, 0>>, <<1, 0, 0>>, <<0, 0, 1>>, <<1, 0, 1>>, <<0, 2, 0>>, <<1, 1, 0>>}

\* Polynomial(degreeType s) in a monoid that holds these terms, over Z/3Z.
InitOrder ==
    /\ heap = Load([heap |-> <<>>, terms |-> {}, ret |-> 0], OrderVectors).heap
    /\ terms = Load([heap |-> <<>>, terms |-> {}, ret |-> 0], OrderVectors).terms
    /\ pc = [t \in Threads |-> "idle"]
    /\ call = [t \in Threads |-> NoCall]
    /\ cand = [t \in Threads |-> 0]
    /\ ret = [t \in Threads |-> 0]
    /\ test = NoTest
    /\ F = <<>>
    /\ writer = Idle
    /\ reader = Idle
    /\ field = 3
    /\ \E s \in {0, 2} :
          poly = [stage |-> "build", p |-> [EmptyPoly EXCEPT !.sugarDegree = s]]

\* push_back(const Monomial&)
PushMonomial(m) ==
    /\ poly.stage # "none"
    /\ size(poly.p) < MaxTerms
    /\ poly' = [stage |-> "build", p |-> push_back(poly.p, m[1], m[2])]
    /\ UNCHANGED <<monoidVars, threadVars, test, simplifyVars, field>>

NextOrder ==
    \/ \E m \in Scalars(field) \X terms : PushMonomial(m)
    \/ \E O \in Orderings : Order(O)
    \/ \E s \in 0..MaxSugar : SetSugar(s)
    \/ \E l \in Scalars(field) : MulByScalar(l)

SpecOrder == InitOrder /\ [][NextOrder]_vars

\* The terms of P are pairwise distinct.
DistinctTerms(P) ==
    \A i, j \in 1..size(P) : P.terms[i] = P.terms[j] => i = j

\* C11: order(O) on a polynomial with pairwise distinct terms leaves the
\* terms in strictly decreasing order under O, every (coefficient, term)
\* pair of the original at exactly one position, nothing else, and the sugar
\* degree as it was.
OrderSorts ==
    (poly.stage = "ordered" /\ DistinctTerms(poly.pre)) =>
        /\ \A i \in 1..(size(poly.p) - 1) :
              cmp(poly.O, heap, poly.p.terms[i], poly.p.terms[i + 1]) > 0
        /\ \A i \in 2..size(poly.p) :
              cmp(poly.O, heap, LT(poly.p), poly.p.terms[i]) > 0
        /\ size(poly.p) = size(poly.pre)
        /\ Len(poly.p.terms) = Len(poly.p.coeffs)
        /\ \A i \in 1..size(poly.pre) :
              Cardinality({j \in 1..size(poly.p) :
                              /\ poly.p.terms[j] = poly.pre.terms[i]
                              /\ poly.p.coeffs[j] = poly.pre.coeffs[i]}) = 1
        /\ DistinctTerms(poly.p)
        /\ poly.p.sugarDegree = poly.pre.sugarDegree

\* Three monomials with distinct terms and two different coefficients, given
\* in increasing order, have been put in decreasing order; the sugar degree
\* is 2.
OrderSortsRun ==
    /\ poly.stage = "ordered"
    /\ size(poly.pre) = 3
    /\ DistinctTerms(poly.pre)
    /\ poly.p.terms = <<poly.pre.terms[3], poly.pre.terms[2], poly.pre.terms[1]>>
    /\ poly.p.coeffs = <<2, 1, 2>>
    /\ poly.pre.coeffs = <<2, 1, 2>>
    /\ poly.pre.sugarDegree = 2
    /\ poly.O = "DegRevLex"
    /\ cmp("Lex", heap, poly.p.terms[1], poly.p.terms[2]) < 0


(***************************************************************************)
(* Multiplication at the capacity of degreeType                            *)
(***************************************************************************)
\* Exponent vectors at and near the capacity: the largest exponent, half of
\* the capacity in one and in two coordinates.
LargeVectors ==
    {<<0, 0, 0>>, <<1, 0, 0>>, <<DegreeMod - 1, 0, 0>>,
     <<DegreeMod \div 2, 0, 0>>, <<DegreeMod \div 2, DegreeMod \div 2, 0>>}

InitLarge ==
    /\ heap = Load([heap |-> <<>>, terms |-> {}, ret |-> 0], LargeVectors).heap
    /\ terms = Load([heap |-> <<>>, terms |-> {}, ret |-> 0], LargeVectors).terms
    /\ pc = [t \in Threads |-> "idle"]
    /\ call = [t \in Threads |-> NoCall]
    /\ cand = [t \in Threads |-> 0]
    /\ ret = [t \in Threads |-> 0]
    /\ test = NoTest
    /\ F = <<>>
    /\ writer = Idle
    /\ reader = Idle
    /\ field = 0
    /\ poly = NoPoly

\* Term::mul(a, b) on two terms of the monoid.  TermInstance::mul and the
\* multiplication constructor have no failing path: the call returns a
\* handle, and no error is raised.
MulLarge(a, b) ==
    /\ Cardinality(terms) < MaxInterned
    /\ \E m \in {mul([heap |-> heap, terms |-> terms, ret |-> 0], a, b)} :
          /\ heap' = m.heap
          /\ terms' = m.terms
          /\ test' = [kind |-> "mul", a |-> a, b |-> b, r |-> m.ret,
                      error |-> "none"]
    /\ UNCHANGED <<threadVars, simplifyVars, polyVars>>

NextLarge == \E a \in terms, b \in terms : MulLarge(a, b)

SpecLarge == InitLarge /\ [][NextLarge]_vars

\* The exponent sum of a and b exceeds the capacity in some coordinate.
Overflows(a, b) ==
    \E i \in Indets : heap[a].indets[i] + heap[b].indets[i] >= DegreeMod

\* C12: a multiplication whose exponent sum exceeds the capacity in some
\* coordinate is reported as a MonoidError; a handle that mul returns has
\* the componentwise sum of its inputs as exponent vector, and it is a only
\* if b is the one term.
OverflowReported ==
    test.kind = "mul" =>
        /\ Overflows(test.a, test.b) => test.error = "MonoidError"
        /\ test.error = "none" =>
              /\ \A i \in Indets :
                    heap[test.r].indets[i] =
                        heap[test.a].indets[i] + heap[test.b].indets[i]
              /\ test.r = test.a => \A i \in Indets : heap[test.b].indets[i] = 0

\* mul(x[1], x[1]^65535) has returned the handle of the one term, without
\* an error.
OverflowSilentRun ==
    /\ test.kind = "mul"
    /\ heap[test.a].indets = <<1, 0, 0>>
    /\ heap[test.b].indets = <<DegreeMod - 1, 0, 0>>
    /\ heap[test.r].indets = <<0, 0, 0>>
    /\ test.error = "none"


(***************************************************************************)
(* The outer key of the table: Polynomial::hash and operator==             *)
(***************************************************************************)
\* The hash of the polynomial with the sugar degree mixed in: a faulty hash
\* that looks at a field operator== ignores.
hashSugar(h, P) == Xor64(Word(P.sugarDegree), HashUpTo(h, P, size(P)))

\* Polynomial::hash, which std::hash<Polynomial> returns.
hash(h, P) == HashUpTo(h, P, size(P))

\* The lookup of concurrent_unordered_map<Polynomial, ..., std::hash<Polynomial>>:
\* the stored keys with the hash of f that compare equal to f.
FindHashed(Fm, f) ==
    {k \in DOMAIN Fm : hash(heap, k) = hash(heap, f) /\ PolyEq(k, f)}

\* The polynomials used as outer keys: c*x[1], c*x[1] + d and c + d*x[1]
\* with c, d in {1, 2}, each with sugar degree 0 or 1.
HashPolys ==
    {[coeffs |-> cs, terms |-> ts, sugarDegree |-> sd] :
        cs \in [1..2 -> 1..2],
        ts \in {<<Handle(heap, terms, <<1, 0, 0>>), Handle(heap, terms, <<0, 0, 0>>)>>,
                <<Handle(heap, terms, <<0, 0, 0>>), Handle(heap, terms, <<1, 0, 0>>)>>},
        sd \in 0..1}
    \cup
    {[coeffs |-> <<c>>, terms |-> <<Handle(heap, terms, <<1, 0, 0>>)>>, sugarDegree |-> sd] :
        c \in 1..2, sd \in 0..1}

InitHash ==
    /\ heap = Loaded(1).heap
    /\ terms = Loaded(1).terms
    /\ pc = [t \in Threads |-> "idle"]
    /\ call = [t \in Threads |-> NoCall]
    /\ cand = [t \in Threads |-> 0]
    /\ ret = [t \in Threads |-> 0]
    /\ test = NoTest
    /\ F = <<>>
    /\ writer = Idle
    /\ reader = Idle
    /\ field = 3
    /\ poly = NoPoly

\* insert(t, f, p), its first step: the entry for f is found through the
\* hash and operator==, or created.
HashInsert(f) ==
    /\ Cardinality(DOMAIN F) < MaxKeys
    /\ F' = IF FindHashed(F, f) = {} THEN Extend(F, f, <<>>) ELSE F
    /\ UNCHANGED <<monoidVars, threadVars, test, writer, reader, polyVars>>

\* search(t, f), its first step: the inner table of f is looked up through
\* the hash and operator==.
HashSearch(f) ==
    /\ reader' = [pc |-> "done", f |-> f,
                  found |-> FindHashed(searchOuter(F, f, FALSE), f) # {},
                  hadEqual |-> FindOuter(F, f) # {}]
    /\ F' = searchOuter(F, f, FALSE)
    /\ UNCHANGED <<monoidVars, threadVars, test, writer, polyVars>>

NextHash ==
    \/ \E f \in HashPolys : HashInsert(f)
    \/ \E f \in HashPolys : HashSearch(f)

SpecHash == InitHash /\ [][NextHash]_vars

\* C13: polynomials that compare equal have the same hash, so the table
\* holds one entry per class of equal polynomials, and a search with a
\* polynomial equal to one that was inserted finds its inner table.
HashConsistent ==
    /\ \A k \in DOMAIN F :
          /\ (reader.pc = "done" /\ PolyEq(k, reader.f)) =>
                hash(heap, k) = hash(heap, reader.f)
          /\ FindHashed(F, k) = {k}
          /\ \A k2 \in DOMAIN F : PolyEq(k, k2) => k = k2
    /\ reader.pc = "done" =>
          /\ reader.hadEqual => reader.found
          /\ FindHashed(F, reader.f) = FindOuter(F, reader.f)

\* A search with x[1] + 2 of sugar degree 0 has found the inner table that
\* was created for x[1] + 2 of sugar degree 1, next to the table of
\* 2 + x[1], which has the same hash.
HashConsistentRun ==
    /\ reader.pc = "done"
    /\ reader.found
    /\ reader.f.coeffs = <<1, 2>>
    /\ heap[reader.f.terms[1]].degree = 1
    /\ reader.f.sugarDegree = 0
    /\ reader.f \notin DOMAIN F
    /\ \E k \in DOMAIN F : PolyEq(k, reader.f) /\ k.sugarDegree = 1
    /\ \E k \in DOMAIN F :
          /\ ~PolyEq(k, reader.f)
          /\ hash(heap, k) = hash(heap, reader.f)

====
